---- MODULE Spec2Model ----
(***************************************************************************)
(* Bash and Dash: the log analysis core of Bashanddash.py.                 *)
(*                                                                         *)
(* count_greedy_bashes_per_battle scans a chat log line by line, splits it *)
(* into battles at every 'Game over' line and counts, per pirate, the      *)
(* lines matching one of the four BASH_PATTERNS. show_summary_in_gui       *)
(* turns the last battle and the two rate fields into the summary text,    *)
(* the two lists of /pay commands and the total label.                     *)
(*                                                                         *)
(* A line is a sequence of tokens (strings). The bracket characters, the  *)
(* marker text, the literal phrases of the patterns and every blank next   *)
(* to a bracket or to an actor name are tokens of their own; the matcher   *)
(* works on tokens. A rate field is a sequence of characters.              *)
(***************************************************************************)
EXTENDS Integers, Sequences, FiniteSets, TLC

VARIABLES
    log,                \* the lines of the file being read
    pos,                \* number of lines the for loop has consumed
    in_battle,          \* local of count_greedy_bashes_per_battle
    current_battle,     \* local: <<[pirate, count]>> in insertion order
    battles,            \* local / return value: sequence of battles
    pc,                 \* "scan", "returned", "shown"
    payout_var,         \* text of the pay-per-bash entry
    top_var,            \* text of the top-basher-bonus entry
    summary,            \* text of result_box
    payout_lines,       \* list of per-bash /pay commands
    top_pay_line,       \* list of top-basher /pay commands
    total_payout_label, \* text of the total label
    file_path,          \* state['file_path']; "" for None
    had_cmds,           \* history: a command list was non-empty when the
                        \* last handler started
    read_ok,            \* history: the last call of
                        \* count_greedy_bashes_per_battle could read its file
    read_failed,        \* history: some call of
                        \* count_greedy_bashes_per_battle could not read
                        \* its file
    event,              \* history: the last handler that ran
    snap                \* history: <<>> or one remembered analysis

vars == <<log, pos, in_battle, current_battle, battles, pc, payout_var,
          top_var, summary, payout_lines, top_pay_line, total_payout_label,
          file_path, had_cmds, read_ok, read_failed, event, snap>>

scanVars == <<log, pos, in_battle, current_battle, battles>>
guiVars == <<payout_var, top_var, summary, payout_lines, top_pay_line,
             total_payout_label, file_path, had_cmds, read_ok, read_failed,
             event, snap>>
screenVars == <<summary, payout_lines, top_pay_line, total_payout_label>>

-----------------------------------------------------------------------------
(* Bounds *)

\* Longest log over CoreLines, and longest log over all of Lines.
MaxLogLen == 5
MaxShortLen == 2

-----------------------------------------------------------------------------
(* Tokens and patterns *)

START_PATTERN == "Game over"

\* The literal that follows the pirate group in each of the four patterns.
BashVerb(k) ==
    CASE k = 1 -> " performs a powerful attack against "
      [] k = 2 -> " delivers an overwhelming barrage against "
      [] k = 3 -> " executes a masterful strike against "
      [] k = 4 -> " swings a devious blow against "

\* The literal that ends each of the four patterns.
BashTail(k) ==
    CASE k = 1 -> " and steals some loot in the process!"
      [] k = 2 -> " causing some treasure to fall from their grip!"
      [] k = 3 -> " who drops some treasure in surprise!"
      [] k = 4 -> " jarring some treasure loose!"

NumPatterns == 4

BASH_PATTERNS == [k \in 1..NumPatterns |-> <<BashVerb(k), BashTail(k)>>]

IsSpace(tok) == tok = " "

\* str.strip() on a token sequence: drop leading and trailing blanks.
RECURSIVE LStrip(_)
LStrip(s) ==
    IF s # <<>> /\ IsSpace(Head(s)) THEN LStrip(Tail(s)) ELSE s

RECURSIVE RStrip(_)
RStrip(s) ==
    IF s # <<>> /\ IsSpace(s[Len(s)]) THEN RStrip(SubSeq(s, 1, Len(s) - 1))
    ELSE s

Strip(s) == RStrip(LStrip(s))

\* The text of a token sequence.
RECURSIVE Join(_)
Join(s) == IF s = <<>> THEN "" ELSE Head(s) \o Join(Tail(s))

\* re.search(START_PATTERN, line): the marker text occurs anywhere in line.
IsMarker(line) == \E i \in 1..Len(line) : line[i] = START_PATTERN

\* The ways r"\[.*?\]\s*(?P<pirate>.+?)<verb>.+<tail>" can match line:
\* <<s, j, p, q>> with '[' at s, ']' at j, blanks from j+1 to p-1, the
\* pirate group from p to q, the verb literal at q+1, at least one token,
\* then the tail literal.
MatchCandidates(pat, line) ==
    LET n == Len(line) IN
    { c \in (1..n) \X (1..n) \X (1..n) \X (1..n) :
        /\ line[c[1]] = "["
        /\ c[2] > c[1]
        /\ line[c[2]] = "]"
        /\ c[3] > c[2]
        /\ \A i \in (c[2] + 1)..(c[3] - 1) : IsSpace(line[i])
        /\ c[4] >= c[3]
        /\ c[4] + 1 <= n
        /\ line[c[4] + 1] = pat[1]
        /\ \E t \in (c[4] + 3)..n : line[t] = pat[2] }

\* The order in which the backtracking matcher finds candidates: leftmost
\* start, lazy '.*?', greedy '\s*', lazy '.+?'.
Preferred(c, d) ==
    \/ c[1] < d[1]
    \/ c[1] = d[1] /\ c[2] < d[2]
    \/ c[1] = d[1] /\ c[2] = d[2] /\ c[3] > d[3]
    \/ c[1] = d[1] /\ c[2] = d[2] /\ c[3] = d[3] /\ c[4] <= d[4]

\* Variant: the bracketed prefix may be missing; the pirate group then
\* starts wherever the search starts.
re_search_optional_prefix(pat, line) ==
    LET cands == MatchCandidates(pat, line)
        bare == {q \in 1..Len(line) :
                    /\ q + 1 <= Len(line)
                    /\ line[q + 1] = pat[1]
                    /\ \E t \in (q + 3)..Len(line) : line[t] = pat[2]}
    IN  IF cands # {}
        THEN LET best == CHOOSE c \in cands :
                            \A d \in cands : Preferred(c, d)
             IN  <<SubSeq(line, best[3], best[4])>>
        ELSE IF bare # {}
        THEN <<SubSeq(line, 1, CHOOSE q \in bare : \A r \in bare : q <= r)>>
        ELSE <<>>

\* re.search(pattern, line): <<>> for None, else <<match.group('pirate')>>.
re_search(pat, line) ==
    LET cands == MatchCandidates(pat, line) IN
    IF cands = {} THEN <<>>
    ELSE LET best == CHOOSE c \in cands : \A d \in cands : Preferred(c, d)
         IN  <<SubSeq(line, best[3], best[4])>>

-----------------------------------------------------------------------------
(* The lines the logs are made of *)

\* "[<ts>] <actor><verb k><victim><tail k>"
Hit(k, ts, actor, victim) ==
    <<"[", ts, "]", " ", actor, BashVerb(k), victim, BashTail(k)>>

MarkerLine == <<START_PATTERN>>
RedLine == Hit(1, "12:00", "Redbeard", "Bluebeard")
ShortyLine == Hit(4, "12:02", "Shorty", "Longjohn")
ChatLine == <<"[", "12:03", "]", " ", "Redbeard", " says ", "game over">>

\* pattern 2 and pattern 3
BarrageLine == Hit(2, "12:04", "Shorty", "Bluebeard")
StrikeLine == Hit(3, "12:05", "Redbeard", "Longjohn")
\* an attack line without the bracketed prefix
NoPrefixLine == <<"Redbeard", BashVerb(1), "Bluebeard", BashTail(1)>>
\* an attack line whose actor is a blank
BlankActorLine == <<"[", "12:06", "]", " ", BashVerb(1), "Bluebeard",
                    BashTail(1)>>
\* matched by pattern 1 (pirate up to the first 'performs') and by
\* pattern 4 (pirate Shorty)
DoubleLine == <<"[", "12:07", "]", " ", "Shorty", BashVerb(4), "Redbeard",
                BashVerb(1), "Bluebeard", BashTail(1), BashTail(4)>>
\* an attack line whose actor is called 'Game over'
MarkerAttackLine == Hit(1, "12:08", START_PATTERN, "Bluebeard")
\* an actor name with an inner blank and a prefix with two brackets
TwoWordLine == <<"[", "a", "]", "b", "]", " ", "Red", " ", "Beard", " ",
                 BashVerb(4), "Longjohn", BashTail(4)>>

CoreLines == {MarkerLine, RedLine, ShortyLine, ChatLine}

Lines == CoreLines \cup {BarrageLine, StrikeLine, NoPrefixLine,
                         BlankActorLine, DoubleLine, MarkerAttackLine,
                         TwoWordLine}

\* The end-to-end example of the specification.
ExampleLog ==
    << MarkerLine,
       Hit(1, "12:00", "Redbeard", "Bluebeard"),
       Hit(1, "12:01", "Redbeard", "Bluebeard"),
       Hit(4, "12:02", "Shorty", "Longjohn"),
       MarkerLine >>

\* A battle that ends with counts A:3, B:3, C:1.
TieLog ==
    << MarkerLine,
       Hit(1, "1", "A", "X"), Hit(2, "2", "B", "X"), Hit(3, "3", "A", "X"),
       Hit(4, "4", "C", "X"), Hit(1, "5", "B", "X"), Hit(2, "6", "B", "X"),
       Hit(3, "7", "A", "X") >>

\* Two fights separated by the attack line of an actor called 'Game over'.
MarkerNameLog == <<MarkerLine, RedLine, MarkerAttackLine, ShortyLine>>

SeqsUpTo(S, n) == UNION { [1..m -> S] : m \in 0..n }

Logs == SeqsUpTo(CoreLines, MaxLogLen) \cup SeqsUpTo(Lines, MaxShortLen)
            \cup {ExampleLog, TieLog, MarkerNameLog}

\* Every line a log can hold.
AllLines == UNION { {l[i] : i \in 1..Len(l)} : l \in {ExampleLog, TieLog} }
                \cup Lines

\* re.search of each pattern on each line, computed once.
SearchOf == [l \in AllLines |->
                [k \in 1..NumPatterns |-> re_search(BASH_PATTERNS[k], l)]]

\* Variant: no break, the last pattern that matches gives the pirate.
LastMatchFrom(k, line) ==
    LET ks == {j \in k..NumPatterns : SearchOf[line][j] # <<>>} IN
    IF ks = {} THEN <<>>
    ELSE LET kl == CHOOSE j \in ks : \A i \in ks : i <= j
         IN  <<Join(Strip(SearchOf[line][kl][1]))>>

\* The for loop over BASH_PATTERNS with its break: the first pattern, from
\* k on, that matches gives the pirate, match.group('pirate').strip();
\* <<>> when none matches.
RECURSIVE FirstMatchFrom(_, _)
FirstMatchFrom(k, line) ==
    IF k > NumPatterns THEN <<>>
    ELSE LET m == SearchOf[line][k] IN
         IF m # <<>> THEN <<Join(Strip(m[1]))>>
         ELSE FirstMatchFrom(k + 1, line)

MatchOf == [l \in AllLines |-> FirstMatchFrom(1, l)]

-----------------------------------------------------------------------------
(* count_greedy_bashes_per_battle *)

\* Variant: every hit makes a new entry.
IncrementAppend(cur, pirate) ==
    Append(cur, [pirate |-> pirate, count |-> 1])

\* Variant: a hit whose pirate is the empty string is not counted.
IncrementNamed(cur, pirate) ==
    IF pirate = "" THEN cur
    ELSE IF \E i \in 1..Len(cur) : cur[i].pirate = pirate
    THEN [i \in 1..Len(cur) |->
            IF cur[i].pirate = pirate
            THEN [cur[i] EXCEPT !.count = @ + 1] ELSE cur[i]]
    ELSE Append(cur, [pirate |-> pirate, count |-> 1])

\* current_battle[pirate] += 1 on a defaultdict(int): a new key goes last.
Increment(cur, pirate) ==
    IF \E i \in 1..Len(cur) : cur[i].pirate = pirate
    THEN [i \in 1..Len(cur) |->
            IF cur[i].pirate = pirate
            THEN [cur[i] EXCEPT !.count = @ + 1] ELSE cur[i]]
    ELSE Append(cur, [pirate |-> pirate, count |-> 1])

\* Variant: the battle is appended even when it is empty.
FlushOnMarkerAlways(in_b, cur, bs) ==
    IF in_b THEN Append(bs, cur) ELSE bs

\* Variant: the battle is appended on every marker.
FlushOnMarkerUnconditional(in_b, cur, bs) == Append(bs, cur)

\* Variant: the battle is put at the front of the list.
FlushOnMarkerPrepend(in_b, cur, bs) ==
    IF in_b /\ cur # <<>> THEN <<cur>> \o bs ELSE bs

\* Variant: the open battle is dropped at a marker.
FlushOnMarkerDrop(in_b, cur, bs) == bs

\* On a marker line: if in_battle and current_battle:
\*     battles.append(dict(current_battle))
FlushOnMarker(in_b, cur, bs) ==
    IF in_b /\ cur # <<>> THEN Append(bs, cur) ELSE bs

\* Variant: the open battle is appended after the loop even when empty.
FlushAtEndAlways(in_b, cur, bs) == IF in_b THEN Append(bs, cur) ELSE bs

\* Variant: no flush after the loop.
FlushAtEndMissing(in_b, cur, bs) == bs

\* After the loop: if in_battle and current_battle:
\*     battles.append(dict(current_battle))
FlushAtEnd(in_b, cur, bs) ==
    IF in_b /\ cur # <<>> THEN Append(bs, cur) ELSE bs

\* Variant: inside a battle the attack patterns are tried before the marker.
ProcessLineBashFirst(st, line) ==
    IF st.in_battle /\ MatchOf[line] # <<>>
    THEN [st EXCEPT !.current_battle = Increment(@, MatchOf[line][1])]
    ELSE IF IsMarker(line)
    THEN [in_battle |-> TRUE,
          current_battle |-> <<>>,
          battles |-> FlushOnMarker(st.in_battle, st.current_battle,
                                   st.battles)]
    ELSE st

\* Variant: a marker closes the open battle even when it has no hit.
ProcessLineCloseEmpty(st, line) ==
    IF IsMarker(line)
    THEN [in_battle |-> TRUE,
          current_battle |-> <<>>,
          battles |-> IF st.in_battle
                      THEN Append(st.battles, st.current_battle)
                      ELSE st.battles]
    ELSE IF st.in_battle /\ MatchOf[line] # <<>>
         THEN [st EXCEPT !.current_battle = Increment(@, MatchOf[line][1])]
         ELSE st

\* One iteration of the for loop, on the locals st.
ProcessLine(st, line) ==
    IF IsMarker(line)
    THEN [in_battle |-> TRUE,
          current_battle |-> <<>>,
          battles |-> FlushOnMarker(st.in_battle, st.current_battle,
                                   st.battles)]
    ELSE IF st.in_battle /\ MatchOf[line] # <<>>
         THEN [st EXCEPT !.current_battle = Increment(@, MatchOf[line][1])]
         ELSE st

\* Variant: the pass starts inside a battle.
ScanInitInBattle ==
    [in_battle |-> TRUE, current_battle |-> <<>>, battles |-> <<>>]

\* The locals before the loop.
ScanInit == [in_battle |-> FALSE, current_battle |-> <<>>, battles |-> <<>>]

RECURSIVE ScanFrom(_, _)
ScanFrom(st, lines) ==
    IF lines = <<>> THEN st
    ELSE ScanFrom(ProcessLine(st, Head(lines)), Tail(lines))

\* The whole function on a readable file with these lines.
count_greedy_bashes_per_battle(lines) ==
    LET st == ScanFrom(ScanInit, lines)
    IN  FlushAtEnd(st.in_battle, st.current_battle, st.battles)

Locals == [in_battle |-> in_battle, current_battle |-> current_battle,
           battles |-> battles]

SetLocals(st) ==
    /\ in_battle' = st.in_battle
    /\ current_battle' = st.current_battle
    /\ battles' = st.battles

-----------------------------------------------------------------------------
(* show_summary_in_gui *)

\* state['file_path'] when no file has been chosen
NoPath == ""

\* The texts a rate entry can hold.
RateFields == { <<>>, <<"x">>, <<"0">>, <<"1", "0", "0">>,
                <<"5", "0", "0">>, <<"-", "5">>, <<" ", "7">> }

Digits == <<"0", "1", "2", "3", "4", "5", "6", "7", "8", "9">>

IsDigit(c) == \E d \in 1..10 : Digits[d] = c

DigitVal(c) == (CHOOSE d \in 1..10 : Digits[d] = c) - 1

RECURSIVE DigitsVal(_)
DigitsVal(s) ==
    IF s = <<>> THEN 0
    ELSE 10 * DigitsVal(SubSeq(s, 1, Len(s) - 1)) + DigitVal(s[Len(s)])

\* int(text): <<n>>, or <<>> for ValueError. Blanks around the number
\* are dropped, one sign is allowed, at least one digit is needed.
ParseInt(text) ==
    LET t == Strip(text)
        signed == t # <<>> /\ t[1] \in {"-", "+"}
        body == IF signed THEN Tail(t) ELSE t
    IN  IF body = <<>> \/ \E i \in 1..Len(body) : ~IsDigit(body[i])
        THEN <<>>
        ELSE IF signed /\ t[1] = "-" THEN <<0 - DigitsVal(body)>>
             ELSE <<DigitsVal(body)>>

\* Variant: a field that is not a number falls back to the entry's default.
RateOfDefault(text) == IF ParseInt(text) = <<>> THEN 100 ELSE ParseInt(text)[1]

\* try: int(var.get()) except (ValueError, TypeError): 0
RateOf(text) == IF ParseInt(text) = <<>> THEN 0 ELSE ParseInt(text)[1]

\* sorted(last_battle.items(), key=lambda x: -x[1]): by count, largest
\* first; the sort is stable, equal counts keep their insertion order.
\* Variant: an entry goes before the entries of the same count.
InsertSortedTiesFirst(s, e) ==
    LET k == Cardinality({i \in 1..Len(s) : s[i].count > e.count})
    IN  SubSeq(s, 1, k) \o <<e>> \o SubSeq(s, k + 1, Len(s))

InsertSorted(s, e) ==
    LET k == Cardinality({i \in 1..Len(s) : s[i].count >= e.count})
    IN  SubSeq(s, 1, k) \o <<e>> \o SubSeq(s, k + 1, Len(s))

RECURSIVE SortedFrom(_, _)
SortedFrom(done, rest) ==
    IF rest = <<>> THEN done
    ELSE SortedFrom(InsertSorted(done, Head(rest)), Tail(rest))

\* Variant: the entries are left in insertion order.
Unsorted(battle) == battle

Sorted(battle) == SortedFrom(<<>>, battle)

RECURSIVE SumCounts(_)
SumCounts(battle) ==
    IF battle = <<>> THEN 0 ELSE Head(battle).count + SumCounts(Tail(battle))

\* f"{n:,}" for n >= 0
RECURSIVE Thousands(_)
Thousands(n) ==
    IF n < 1000 THEN ToString(n)
    ELSE LET r == n % 1000
             pad == IF r < 10 THEN "00" ELSE IF r < 100 THEN "0" ELSE ""
         IN  Thousands(n \div 1000) \o "," \o pad \o ToString(r)

\* Variant: amount and pirate change places.
PayCmdAmountFirst(pirate, amount) ==
    "/pay " \o ToString(amount) \o " " \o pirate

\* f"/pay {pirate} {amount}"
PayCmd(pirate, amount) == "/pay " \o pirate \o " " \o ToString(amount)

\* f"{pirate} ({count})"
PiratePart(e) == e.pirate \o " (" \o ToString(e.count) \o ")"

\* ", ".join(parts)
RECURSIVE CommaJoin(_)
CommaJoin(parts) ==
    IF parts = <<>> THEN ""
    ELSE IF Len(parts) = 1 THEN parts[1]
    ELSE parts[1] \o ", " \o CommaJoin(Tail(parts))

SummaryOf(last_battle) ==
    LET srt == Sorted(last_battle)
        pirate_parts == [i \in 1..Len(srt) |-> PiratePart(srt[i])]
        head == "Total greedy bashes: " \o ToString(SumCounts(last_battle))
    IN  IF pirate_parts # <<>> THEN head \o ", " \o CommaJoin(pirate_parts)
        ELSE head

\* Variant: only the first of the tied top bashers is paid.
TopCmdsFirstOnly(last_battle, top_payout) ==
    IF last_battle # <<>> /\ top_payout > 0
    THEN <<PayCmd(Sorted(last_battle)[1].pirate, top_payout)>>
    ELSE <<>>

\* The top basher commands: one per pirate whose count is the largest.
TopCmds(last_battle, top_payout) ==
    IF last_battle # <<>> /\ top_payout > 0
    THEN LET sorted_bashers == Sorted(last_battle)
             max_bashes == sorted_bashers[1].count
             top_bashers == SelectSeq(sorted_bashers,
                                LAMBDA e : e.count = max_bashes)
         IN  [i \in 1..Len(top_bashers) |->
                 PayCmd(top_bashers[i].pirate, top_payout)]
    ELSE <<>>

\* Variant: the amount is the rate, not rate * count.
PayCmdsFlat(last_battle, payout) ==
    IF payout > 0 /\ last_battle # <<>>
    THEN LET srt == Sorted(last_battle)
         IN  [i \in 1..Len(srt) |-> PayCmd(srt[i].pirate, payout)]
    ELSE <<>>

\* Variant: a rate of zero still produces commands.
PayCmdsAtZero(last_battle, payout) ==
    IF payout >= 0 /\ last_battle # <<>>
    THEN LET srt == Sorted(last_battle)
         IN  [i \in 1..Len(srt) |-> PayCmd(srt[i].pirate, payout * srt[i].count)]
    ELSE <<>>

\* Variant: every rate other than 0 gives commands.
PayCmdsNonZero(last_battle, payout) ==
    IF payout # 0 /\ last_battle # <<>>
    THEN LET srt == Sorted(last_battle)
         IN  [i \in 1..Len(srt) |-> PayCmd(srt[i].pirate, payout * srt[i].count)]
    ELSE <<>>

\* The per-bash commands: one per pirate, payout * count.
PayCmds(last_battle, payout) ==
    IF payout > 0 /\ last_battle # <<>>
    THEN LET srt == Sorted(last_battle)
         IN  [i \in 1..Len(srt) |-> PayCmd(srt[i].pirate, payout * srt[i].count)]
    ELSE <<>>

\* total_battle_payout: the sum of the per-bash amounts only.
TotalBattlePayout(last_battle, payout) ==
    IF payout > 0 /\ last_battle # <<>>
    THEN payout * SumCounts(last_battle)
    ELSE 0

TotalLabel(n) == "Total Battle Payout: " \o Thousands(n) \o " PoE"

\* The four things on the screen.
Screen == [summary |-> summary, payout_lines |-> payout_lines,
           top_pay_line |-> top_pay_line, total |-> total_payout_label]

\* Variant: the two lists are not cleared before they are filled.
show_summary_no_clear(bs, pv, tv, scr) ==
    IF bs = <<>>
    THEN [scr EXCEPT !.summary = "No greedy bashes found.",
                     !.total = TotalLabel(0)]
    ELSE LET last_battle == bs[Len(bs)] IN
         [summary |-> SummaryOf(last_battle),
          top_pay_line |-> scr.top_pay_line
                              \o TopCmds(last_battle, RateOf(tv)),
          payout_lines |-> scr.payout_lines
                              \o PayCmds(last_battle, RateOf(pv)),
          total |-> TotalLabel(TotalBattlePayout(last_battle, RateOf(pv)))]

\* Variant: the first battle of the list is shown.
show_summary_first_battle(bs, pv, tv, scr) ==
    IF bs = <<>>
    THEN [summary |-> "No greedy bashes found.", payout_lines |-> <<>>,
          top_pay_line |-> <<>>, total |-> TotalLabel(0)]
    ELSE LET first_battle == bs[1] IN
         [summary |-> SummaryOf(first_battle),
          top_pay_line |-> TopCmds(first_battle, RateOf(tv)),
          payout_lines |-> PayCmds(first_battle, RateOf(pv)),
          total |-> TotalLabel(TotalBattlePayout(first_battle, RateOf(pv)))]

\* Variant: the top-basher bonus is paid only while a per-bash rate is set.
show_summary_coupled(bs, pv, tv, scr) ==
    IF bs = <<>>
    THEN [summary |-> "No greedy bashes found.", payout_lines |-> <<>>,
          top_pay_line |-> <<>>, total |-> TotalLabel(0)]
    ELSE LET last_battle == bs[Len(bs)] IN
         [summary |-> SummaryOf(last_battle),
          top_pay_line |-> IF RateOf(pv) > 0
                           THEN TopCmds(last_battle, RateOf(tv)) ELSE <<>>,
          payout_lines |-> PayCmds(last_battle, RateOf(pv)),
          total |-> TotalLabel(TotalBattlePayout(last_battle, RateOf(pv)))]

\* Variant: the total is the per-bash amounts plus the top-basher amounts.
show_summary_grand_total(bs, pv, tv, scr) ==
    IF bs = <<>>
    THEN [summary |-> "No greedy bashes found.", payout_lines |-> <<>>,
          top_pay_line |-> <<>>, total |-> TotalLabel(0)]
    ELSE LET last_battle == bs[Len(bs)] IN
         [summary |-> SummaryOf(last_battle),
          top_pay_line |-> TopCmds(last_battle, RateOf(tv)),
          payout_lines |-> PayCmds(last_battle, RateOf(pv)),
          total |-> TotalLabel(TotalBattlePayout(last_battle, RateOf(pv))
                       + Len(TopCmds(last_battle, RateOf(tv))) * RateOf(tv))]

\* Variant: the total label is left alone when there is no battle.
show_summary_keep_total(bs, pv, tv, scr) ==
    LET cleared == [scr EXCEPT !.summary = "", !.payout_lines = <<>>,
                               !.top_pay_line = <<>>]
    IN  IF bs = <<>>
        THEN [cleared EXCEPT !.summary = "No greedy bashes found."]
        ELSE LET last_battle == bs[Len(bs)] IN
             [summary |-> SummaryOf(last_battle),
              top_pay_line |-> TopCmds(last_battle, RateOf(tv)),
              payout_lines |-> PayCmds(last_battle, RateOf(pv)),
              total |-> TotalLabel(TotalBattlePayout(last_battle,
                                                     RateOf(pv)))]

\* What show_summary_in_gui(bs, ...) makes of the screen scr when the two
\* entries hold pv and tv: the text and both lists are cleared first, then
\* filled from the last battle; the total label is set on both branches.
show_summary_in_gui(bs, pv, tv, scr) ==
    LET cleared == [scr EXCEPT !.summary = "", !.payout_lines = <<>>,
                               !.top_pay_line = <<>>]
    IN  IF bs = <<>>
        THEN [cleared EXCEPT !.summary = "No greedy bashes found.",
                             !.total = TotalLabel(0)]
        ELSE LET last_battle == bs[Len(bs)] IN
             [summary |-> cleared.summary \o SummaryOf(last_battle),
              top_pay_line |-> cleared.top_pay_line
                                  \o TopCmds(last_battle, RateOf(tv)),
              payout_lines |-> cleared.payout_lines
                                  \o PayCmds(last_battle, RateOf(pv)),
              total |-> TotalLabel(TotalBattlePayout(last_battle,
                                                     RateOf(pv)))]

SetScreen(out) ==
    /\ summary' = out.summary
    /\ top_pay_line' = out.top_pay_line
    /\ payout_lines' = out.payout_lines
    /\ total_payout_label' = out.total

-----------------------------------------------------------------------------
(* One analysis: a pass over a readable log, line by line, then the display *)

Init ==
    /\ log \in Logs
    /\ pos = 0
    /\ in_battle = ScanInit.in_battle
    /\ current_battle = ScanInit.current_battle
    /\ battles = ScanInit.battles
    /\ pc = "scan"
    /\ file_path = NoPath
    /\ had_cmds = FALSE
    /\ read_ok = TRUE
    /\ read_failed = FALSE
    /\ event = "none"
    /\ snap = <<>>
    /\ payout_var = <<"1", "0", "0">>
    /\ top_var = <<"5", "0", "0">>
    /\ summary = ""
    /\ payout_lines = <<>>
    /\ top_pay_line = <<>>
    /\ total_payout_label = TotalLabel(0)

NextLine == log[pos + 1]

Advance ==
    /\ pos' = pos + 1
    /\ SetLocals(ProcessLine(Locals, NextLine))
    /\ UNCHANGED <<log, pc>>
    /\ UNCHANGED guiVars

\* A line with the start marker.
StartLine ==
    /\ pc = "scan" /\ pos < Len(log)
    /\ IsMarker(NextLine)
    /\ Advance

\* A line inside a battle that one of the patterns matches.
BashLine ==
    /\ pc = "scan" /\ pos < Len(log)
    /\ ~IsMarker(NextLine) /\ in_battle /\ MatchOf[NextLine] # <<>>
    /\ Advance

\* A line inside a battle that no pattern matches.
OtherLine ==
    /\ pc = "scan" /\ pos < Len(log)
    /\ ~IsMarker(NextLine) /\ in_battle /\ MatchOf[NextLine] = <<>>
    /\ Advance

\* A line before the first marker.
IdleLine ==
    /\ pc = "scan" /\ pos < Len(log)
    /\ ~IsMarker(NextLine) /\ ~in_battle
    /\ Advance

\* The end of the file: the last flush and the return.
EndOfFile ==
    /\ pc = "scan" /\ pos = Len(log)
    /\ battles' = FlushAtEnd(in_battle, current_battle, battles)
    /\ pc' = "returned"
    /\ UNCHANGED <<log, pos, in_battle, current_battle>>
    /\ UNCHANGED guiVars

\* show_summary_in_gui on the returned battles, the entries holding pv, tv.
ShowSummary ==
    /\ pc = "returned"
    /\ \E pv \in RateFields, tv \in RateFields :
          /\ payout_var' = pv
          /\ top_var' = tv
          /\ SetScreen(show_summary_in_gui(battles, pv, tv, Screen))
    /\ pc' = "shown"
    /\ UNCHANGED scanVars
    /\ UNCHANGED <<file_path, had_cmds, read_ok, read_failed, event, snap>>

Next ==
    \/ StartLine
    \/ BashLine
    \/ OtherLine
    \/ IdleLine
    \/ EndOfFile
    \/ ShowSummary

Spec == Init /\ [][Next]_vars

-----------------------------------------------------------------------------
(* The window: the handlers of main_gui, each run to completion *)

\* The files the dialog can return, and their lines.
Paths == {"fight.log", "tie.log", "chat.log", "usb.log"}

FileLines(path) ==
    CASE path = "fight.log" -> ExampleLog
      [] path = "tie.log" -> TieLog
      [] path = "chat.log" -> <<ChatLine, RedLine>>
      [] path = "usb.log" -> <<MarkerLine, ShortyLine>>

\* What a pass over each file returns, computed once.
FileBattles ==
    [path \in Paths |-> count_greedy_bashes_per_battle(FileLines(path))]

\* Whether open(path) can succeed (TRUE) or raise (FALSE): the file on the
\* removable drive may be gone at any time.
OpenOutcomes(path) == IF path = "usb.log" THEN {TRUE, FALSE} ELSE {TRUE}

\* str(e) of the OSError raised by open(path)
ErrorText(path) == "[Errno 2] No such file or directory: '" \o path \o "'"

\* Variant: the battles of the call before are still in the list.
ReadAndCountLeaky(path, ok) ==
    IF ok THEN battles \o FileBattles[path] ELSE <<>>

\* count_greedy_bashes_per_battle(path) with its try/except: [] when the
\* file cannot be read.
ReadAndCount(path, ok) == IF ok THEN FileBattles[path] ELSE <<>>

GuiInit ==
    /\ log = <<>>
    /\ pos = 0
    /\ in_battle = ScanInit.in_battle
    /\ current_battle = ScanInit.current_battle
    /\ battles = ScanInit.battles
    /\ pc = "idle"
    /\ payout_var = <<"1", "0", "0">>
    /\ top_var = <<"5", "0", "0">>
    /\ summary = ""
    /\ payout_lines = <<>>
    /\ top_pay_line = <<>>
    /\ total_payout_label = TotalLabel(0)
    /\ file_path = NoPath
    /\ had_cmds = FALSE
    /\ read_ok = TRUE
    /\ read_failed = FALSE
    /\ event = "none"
    /\ snap = <<>>

NoteCmds == had_cmds' = (payout_lines # <<>> \/ top_pay_line # <<>>)

\* battles = count_greedy_bashes_per_battle(path); show_summary_in_gui(...)
AnalyseAndShow(path, ok, pv, tv) ==
    /\ log' = (IF ok THEN FileLines(path) ELSE <<>>)
    /\ battles' = ReadAndCount(path, ok)
    /\ SetScreen(show_summary_in_gui(ReadAndCount(path, ok), pv, tv, Screen))
    /\ pc' = "shown"
    /\ read_ok' = ok
    /\ read_failed' = (read_failed \/ ~ok)
    /\ UNCHANGED <<pos, in_battle, current_battle>>

\* The 'No file selected.' branch of select_file and update_file: the text
\* is replaced and both lists are cleared.
ShowNoFile ==
    /\ summary' = "No file selected."
    /\ payout_lines' = <<>>
    /\ top_pay_line' = <<>>
    /\ pc' = "no_file"
    /\ UNCHANGED <<total_payout_label, scanVars, read_ok,
                       read_failed>>

\* select_file, the dialog returning a file that can be read.
SelectFile ==
    \E path \in Paths :
        /\ TRUE \in OpenOutcomes(path)
        /\ \E ok \in OpenOutcomes(path) :
              AnalyseAndShow(path, ok, payout_var, top_var)
        /\ file_path' = path
        /\ NoteCmds
        /\ event' = "select"
        /\ UNCHANGED <<payout_var, top_var>>

\* select_file, the first open raising: only the text changes.
SelectFileError ==
    \E path \in Paths :
        /\ FALSE \in OpenOutcomes(path)
        /\ summary' = "Error reading file: " \o ErrorText(path)
        /\ pc' = "read_error"
        /\ NoteCmds
        /\ event' = "select"
        /\ UNCHANGED <<payout_lines, top_pay_line, total_payout_label,
                       file_path, payout_var, top_var, scanVars, read_ok,
                       read_failed>>

\* select_file, the dialog cancelled.
SelectFileCancel ==
    /\ ShowNoFile
    /\ NoteCmds
    /\ event' = "select"
    /\ UNCHANGED <<file_path, payout_var, top_var>>

\* update_file
UpdateFile ==
    /\ \/ /\ file_path # NoPath
          /\ \E ok \in OpenOutcomes(file_path) :
                AnalyseAndShow(file_path, ok, payout_var, top_var)
       \/ /\ file_path = NoPath
          /\ ShowNoFile
    /\ NoteCmds
    /\ event' = "update"
    /\ UNCHANGED <<file_path, payout_var, top_var>>

\* payout_update after a write of pv and tv to the entries: nothing
\* happens while no file is selected.
PayoutUpdate(pv, tv) ==
    /\ payout_var' = pv
    /\ top_var' = tv
    /\ \/ /\ file_path # NoPath
          /\ \E ok \in OpenOutcomes(file_path) :
                AnalyseAndShow(file_path, ok, pv, tv)
       \/ /\ file_path = NoPath
          /\ pc' = "edited"
          /\ UNCHANGED <<screenVars, scanVars, read_ok,
                       read_failed>>
    /\ NoteCmds
    /\ UNCHANGED file_path

\* The user changes the pay-per-bash entry to a text of R.
EditPayoutTo(R) ==
    /\ \E t \in R : PayoutUpdate(t, top_var)
    /\ event' = "edit_payout"

\* The user changes the top-basher-bonus entry to a text of R.
EditTopTo(R) ==
    /\ \E t \in R : PayoutUpdate(payout_var, t)
    /\ event' = "edit_top"

EditPayout == EditPayoutTo(RateFields)

EditTop == EditTopTo(RateFields)

GuiNext ==
    \/ SelectFile /\ UNCHANGED snap
    \/ SelectFileError /\ UNCHANGED snap
    \/ SelectFileCancel /\ UNCHANGED snap
    \/ UpdateFile /\ UNCHANGED snap
    \/ EditPayout /\ UNCHANGED snap
    \/ EditTop /\ UNCHANGED snap

GuiSpec == GuiInit /\ [][GuiNext]_vars

-----------------------------------------------------------------------------
(* The window with one analysis remembered, to compare later ones with it *)

\* The entry texts of the remembering runs.
IdemRates == { <<"x">>, <<"0">>, <<"1", "0", "0">> }

\* The analysis a handler has just displayed.
ThisAnalysis ==
    [log |-> log', pv |-> RateOf(payout_var'), tv |-> RateOf(top_var'),
     battles |-> battles', screen |-> Screen', mixed |-> FALSE]

SameInput(a) ==
    a.log = log' /\ a.pv = RateOf(payout_var') /\ a.tv = RateOf(top_var')

\* After a handler: the first or a later analysis of a readable file may
\* be remembered; once one is, an analysis of another input is noted.
Remember ==
    IF snap = <<>>
    THEN \/ snap' = <<>>
         \/ pc' = "shown" /\ read_ok' /\ snap' = <<ThisAnalysis>>
    ELSE IF pc' = "shown" /\ ~SameInput(snap[1])
         THEN snap' = <<[snap[1] EXCEPT !.mixed = TRUE]>>
         ELSE snap' = snap

IdemNext ==
    \/ SelectFile /\ Remember
    \/ SelectFileError /\ Remember
    \/ SelectFileCancel /\ Remember
    \/ UpdateFile /\ Remember
    \/ EditPayoutTo(IdemRates) /\ Remember
    \/ EditTopTo(IdemRates) /\ Remember

IdemSpec == GuiInit /\ [][IdemNext]_vars

-----------------------------------------------------------------------------
(* Properties of one analysis *)

IsHit(line) == MatchOf[line] # <<>>

MarkerIdx(upto) == {i \in 1..upto : IsMarker(log[i])}

\* Index of the last marker among the first upto lines, 0 if none.
LastMarkerIn(upto) ==
    IF MarkerIdx(upto) = {} THEN 0
    ELSE CHOOSE i \in MarkerIdx(upto) : \A j \in MarkerIdx(upto) : j <= i

\* Index of the first marker of the log, 0 if none.
FirstMarker ==
    IF MarkerIdx(Len(log)) = {} THEN 0
    ELSE CHOOSE i \in MarkerIdx(Len(log)) :
            \A j \in MarkerIdx(Len(log)) : i <= j

\* The count of pirate p in battle b, 0 when p has no entry.
CountOf(b, p) ==
    IF \E i \in 1..Len(b) : b[i].pirate = p
    THEN b[CHOOSE i \in 1..Len(b) : b[i].pirate = p].count
    ELSE 0

LastBattle == battles[Len(battles)]

MaxCount(b) ==
    CHOOSE m \in {b[i].count : i \in 1..Len(b)} :
        \A i \in 1..Len(b) : b[i].count <= m

\* The step that consumes a marker line.
MarkerStep == pc = "scan" /\ pos' = pos + 1 /\ IsMarker(log[pos + 1])

\* The step that consumes a non-marker line inside a battle.
BattleStep ==
    pc = "scan" /\ pos' = pos + 1 /\ ~IsMarker(log[pos + 1]) /\ in_battle

\* C1: a marker line appends the current battle exactly when a battle is
\* open and has at least one hit, and always leaves an open, empty battle;
\* so the open battle only ever holds the hits read after the last marker.
C1_MarkerFlush ==
    /\ [][MarkerStep =>
            /\ IF in_battle /\ Len(current_battle) >= 1
               THEN battles' = Append(battles, current_battle)
               ELSE battles' = battles
            /\ in_battle' = TRUE
            /\ current_battle' = <<>>]_vars
    /\ [](pc = "scan" =>
            LET since == {i \in (LastMarkerIn(pos) + 1)..pos : IsHit(log[i])}
            IN  /\ LastMarkerIn(pos) = 0 => current_battle = <<>>
                /\ \A k \in 1..Len(current_battle) :
                      current_battle[k].count =
                         Cardinality({i \in since : MatchOf[log[i]] =
                                        <<current_battle[k].pirate>>}))

\* A marker has just closed a battle with hits and opened an empty one.
C1_Witness ==
    /\ pc = "scan" /\ pos >= 3
    /\ IsMarker(log[pos]) /\ IsHit(log[pos - 1])
    /\ Len(battles) >= 1 /\ in_battle /\ current_battle = <<>>

\* C2: the five-line example gives the single battle Redbeard 2, Shorty 1
\* and the summary text of the example.
C2_Example ==
    (log = ExampleLog /\ pc = "shown") =>
        /\ battles = << << [pirate |-> "Redbeard", count |-> 2],
                           [pirate |-> "Shorty", count |-> 1] >> >>
        /\ summary = "Total greedy bashes: 3, Redbeard (2), Shorty (1)"

C2_Witness ==
    /\ log = ExampleLog /\ pc = "shown"
    /\ payout_var = <<"1", "0", "0">> /\ top_var = <<"5", "0", "0">>

\* C3: when the lines after the last marker hold at least one hit, the
\* battle made of exactly those hits is the last battle returned.
C3_TerminalFlush ==
    LET lm == LastMarkerIn(Len(log))
        hits == {i \in (lm + 1)..Len(log) : IsHit(log[i])}
    IN  (pc # "scan" /\ lm > 0 /\ hits # {}) =>
            /\ battles # <<>>
            /\ SumCounts(LastBattle) = Cardinality(hits)
            /\ \A i \in hits :
                  CountOf(LastBattle, MatchOf[log[i]][1]) =
                     Cardinality({j \in hits : MatchOf[log[j]] = MatchOf[log[i]]})

\* The log ends inside a battle with hits, after an earlier battle.
C3_Witness ==
    /\ pc = "returned" /\ Len(log) >= 2
    /\ ~IsMarker(log[Len(log)]) /\ IsHit(log[Len(log)])
    /\ LastMarkerIn(Len(log)) > 1
    /\ Len(battles) = 2

\* The log without the lines before its first marker.
DropIdle(lines) ==
    LET ms == {i \in 1..Len(lines) : IsMarker(lines[i])} IN
    IF ms = {} THEN <<>>
    ELSE SubSeq(lines, CHOOSE i \in ms : \A j \in ms : i <= j, Len(lines))

\* C4: the lines before the first marker have no effect: the result is
\* that of the log without them, and a log without marker gives no battle.
C4_IdleIgnored ==
    pc # "scan" =>
        /\ battles = count_greedy_bashes_per_battle(DropIdle(log))
        /\ FirstMarker = 0 => battles = <<>>

\* An attack line was read before the first marker and a battle returned.
C4_Witness ==
    /\ pc = "returned" /\ FirstMarker > 1
    /\ \E i \in 1..(FirstMarker - 1) : IsHit(log[i])
    /\ battles # <<>>

\* C5: at every point of the pass and after it, there are at most as many
\* battles as marker lines read.
C5_BattlesLeMarkers == Len(battles) <= Cardinality(MarkerIdx(pos))

\* Two markers read, two battles returned.
C5_Witness ==
    /\ pc = "returned" /\ Len(battles) = 2
    /\ Cardinality(MarkerIdx(pos)) = 2

\* C6: a non-marker line inside a battle adds exactly one to the count of
\* the actor of the first pattern that matches it and changes nothing
\* else; a line no pattern matches changes no count.
C6_OneEventPerLine ==
    [][BattleStep =>
        LET line == log[pos + 1]
            ks == {k \in 1..NumPatterns : SearchOf[line][k] # <<>>}
        IN  /\ battles' = battles
            /\ in_battle'
            /\ IF ks = {} THEN current_battle' = current_battle
               ELSE LET k0 == CHOOSE k \in ks : \A j \in ks : k <= j
                        actor == Join(Strip(SearchOf[line][k0][1]))
                    IN  /\ CountOf(current_battle', actor) =
                              CountOf(current_battle, actor) + 1
                        /\ SumCounts(current_battle') =
                              SumCounts(current_battle) + 1
                        /\ \A i \in 1..Len(current_battle) :
                              current_battle[i].pirate # actor =>
                                 current_battle'[i] = current_battle[i]]_vars

\* A line that two patterns match has been counted, for the first one's
\* actor.
C6_Witness ==
    /\ pc = "scan" /\ pos >= 2 /\ log[pos] = DoubleLine /\ in_battle
    /\ SumCounts(current_battle) = 1
    /\ Cardinality({k \in 1..NumPatterns : SearchOf[DoubleLine][k] # <<>>}) = 2

\* C7: with a top bonus above zero there is exactly one top-basher command
\* for each actor whose count is the largest of the last battle, for the
\* whole bonus, and none for anyone else; counts A:3, B:3, C:1 and a bonus
\* of 500 give two commands, for A and for B.
C7_TopBashers ==
    (pc = "shown" /\ battles # <<>> /\ RateOf(top_var) > 0) =>
        LET b == LastBattle
            tops == {i \in 1..Len(b) : b[i].count = MaxCount(b)}
        IN  /\ Len(top_pay_line) = Cardinality(tops)
            /\ \A i \in tops :
                  \E j \in 1..Len(top_pay_line) :
                      top_pay_line[j] = PayCmd(b[i].pirate, RateOf(top_var))
            /\ (log = TieLog /\ RateOf(top_var) = 500) =>
                  top_pay_line = <<PayCmd("A", 500), PayCmd("B", 500)>>

C7_Witness ==
    /\ pc = "shown" /\ log = TieLog /\ RateOf(top_var) = 500
    /\ Len(LastBattle) = 3 /\ Len(top_pay_line) = 2

\* C8: with a pay-per-hit above zero every actor of the last battle gets
\* exactly one per-hit command, for pay-per-hit times the actor's count,
\* and there is no other command.
C8_PerHit ==
    (pc = "shown" /\ battles # <<>> /\ RateOf(payout_var) > 0) =>
        LET b == LastBattle IN
        /\ Len(payout_lines) = Len(b)
        /\ \A i \in 1..Len(b) :
              /\ b[i].count > 0
              /\ \E j \in 1..Len(payout_lines) :
                    payout_lines[j] =
                       PayCmd(b[i].pirate, RateOf(payout_var) * b[i].count)

\* Two actors with different counts have been paid per hit.
C8_Witness ==
    /\ pc = "shown" /\ battles # <<>> /\ RateOf(payout_var) = 100
    /\ Len(LastBattle) = 2 /\ LastBattle[1].count = 2
    /\ Len(payout_lines) = 2

\* C9: with both rates zero and a non-empty last battle, both command
\* lists are empty and the total is 0.
C9_ZeroRates ==
    (pc = "shown" /\ battles # <<>>
        /\ RateOf(payout_var) = 0 /\ RateOf(top_var) = 0) =>
        /\ payout_lines = <<>>
        /\ top_pay_line = <<>>
        /\ total_payout_label = "Total Battle Payout: 0 PoE"

C9_Witness ==
    /\ pc = "shown" /\ battles # <<>> /\ SumCounts(LastBattle) >= 2
    /\ payout_var = <<"0">> /\ top_var = <<"0">>
    /\ payout_lines = <<>> /\ top_pay_line = <<>>

-----------------------------------------------------------------------------
(* Properties of the window *)

\* C10: when the analysis returns no battle, the display has a zero total
\* and two empty command lists, whatever the rates and whatever the lists
\* held before.
C10_NoBattles ==
    (pc = "shown" /\ battles = <<>>) =>
        /\ payout_lines = <<>>
        /\ top_pay_line = <<>>
        /\ total_payout_label = "Total Battle Payout: 0 PoE"

\* No battle was found although commands were on the screen, with rates
\* above zero.
C10_Witness ==
    /\ pc = "shown" /\ battles = <<>> /\ had_cmds
    /\ RateOf(payout_var) > 0 /\ RateOf(top_var) > 0
    /\ payout_lines = <<>> /\ top_pay_line = <<>>

-----------------------------------------------------------------------------
(* Properties of the display, continued *)

\* "<verb> <actor> <amount>"
CmdText(verb, actor, amount) ==
    verb \o " " \o actor \o " " \o ToString(amount)

\* Every command on the screen is "<verb> <actor> <amount>" for an actor
\* of the last battle, and the example gives the three commands named.
CmdForm(verb) ==
    pc = "shown" =>
        /\ \A j \in 1..Len(payout_lines) :
              \E i \in 1..Len(LastBattle) :
                  payout_lines[j] =
                      CmdText(verb, LastBattle[i].pirate,
                              RateOf(payout_var) * LastBattle[i].count)
        /\ \A j \in 1..Len(top_pay_line) :
              \E i \in 1..Len(LastBattle) :
                  top_pay_line[j] =
                      CmdText(verb, LastBattle[i].pirate, RateOf(top_var))
        /\ (log = ExampleLog /\ RateOf(payout_var) = 100
               /\ RateOf(top_var) = 500) =>
              /\ top_pay_line = <<CmdText(verb, "Redbeard", 500)>>
              /\ payout_lines = <<CmdText(verb, "Redbeard", 200),
                                  CmdText(verb, "Shorty", 100)>>

\* C11 as stated: every payment command has the form "pay <actor> <amount>"
\* and the example gives "pay Redbeard 500", "pay Redbeard 200",
\* "pay Shorty 100".
C11_PayNoSlash == CmdForm("pay")

\* C11, amended: every payment command has the form
\* "/pay <actor> <amount>" and the example gives "/pay Redbeard 500",
\* "/pay Redbeard 200", "/pay Shorty 100".
C11_PaySlash == CmdForm("/pay")

\* The example has been displayed with rates 100 and 500.
C11_Witness ==
    /\ pc = "shown" /\ log = ExampleLog
    /\ RateOf(payout_var) = 100 /\ RateOf(top_var) = 500
    /\ Len(payout_lines) = 2 /\ Len(top_pay_line) = 1

\* The amounts of the per-hit commands, added up.
PerHitSum ==
    IF RateOf(payout_var) > 0
    THEN RateOf(payout_var) * SumCounts(LastBattle) ELSE 0

\* The amounts of the top-basher commands, added up.
TopSum == Len(top_pay_line) * RateOf(top_var)

\* C12: the total displayed is the sum of the per-hit amounts plus the sum
\* of the top-bonus amounts of the last battle.
C12_TotalWithBonus ==
    (pc = "shown" /\ battles # <<>>) =>
        total_payout_label = TotalLabel(PerHitSum + TopSum)

\* The analysis on the screen has the input of the remembered one.
SameAsRemembered ==
    /\ pc = "shown" /\ read_ok /\ snap # <<>>
    /\ snap[1].log = log
    /\ snap[1].pv = RateOf(payout_var)
    /\ snap[1].tv = RateOf(top_var)

\* C13: an analysis of the same log content with the same two rates gives
\* the same BattleList, summary, command lists and total as the remembered
\* one, whatever was analysed in between.
C13_Idempotent ==
    SameAsRemembered =>
        /\ battles = snap[1].battles
        /\ Screen = snap[1].screen

\* The remembered input is on the screen again, with commands, after an
\* analysis of another input.
C13_Witness ==
    /\ SameAsRemembered /\ snap[1].mixed
    /\ payout_lines # <<>> /\ top_pay_line # <<>>

\* The text shown by a successful analysis that found no battle.
NoBattlesText == show_summary_in_gui(<<>>, payout_var, top_var, Screen).summary

\* C14: when the file cannot be read, the analysis completes with an empty
\* BattleList and what is shown differs from what a successful analysis
\* without battles shows.
C14_ReadErrorDistinct ==
    (pc = "shown" /\ ~read_ok) =>
        /\ battles = <<>>
        /\ summary # NoBattlesText

\* A rate field that is blank, or holds a character no number has.
BadField(text) ==
    \/ \A i \in 1..Len(text) : IsSpace(text[i])
    \/ \E i \in 1..Len(text) :
          ~IsDigit(text[i]) /\ text[i] \notin {" ", "-", "+"}

\* C15: a blank or non-numeric rate field empties its own command list
\* only; the summary is still shown and the other list is computed from
\* the other field's number.
C15_BadRateIsZero ==
    (pc = "shown" /\ battles # <<>>) =>
        /\ summary = SummaryOf(LastBattle)
        /\ BadField(top_var) =>
              /\ top_pay_line = <<>>
              /\ ParseInt(payout_var) # <<>> =>
                    payout_lines = PayCmds(LastBattle, ParseInt(payout_var)[1])
        /\ BadField(payout_var) =>
              /\ payout_lines = <<>>
              /\ ParseInt(top_var) # <<>> =>
                    top_pay_line = TopCmds(LastBattle, ParseInt(top_var)[1])

\* A non-numeric top-basher field next to a per-bash rate of 100, and a
\* blank per-bash field next to a top-basher rate of 500, are both shown.
C15_Witness ==
    /\ pc = "shown" /\ battles # <<>> /\ summary # ""
    /\ \/ /\ top_var = <<"x">> /\ payout_var = <<"1", "0", "0">>
          /\ top_pay_line = <<>> /\ payout_lines # <<>>
       \/ /\ payout_var = <<>> /\ top_var = <<"5", "0", "0">>
          /\ payout_lines = <<>> /\ top_pay_line # <<>>

\* The text ", actor (count)" of the entries f[i], f[i+1], ... of battle b.
RECURSIVE PartsText(_, _, _)
PartsText(b, f, i) ==
    IF i > Len(b) THEN ""
    ELSE ", " \o b[f[i]].pirate \o " (" \o ToString(b[f[i]].count) \o ")"
              \o PartsText(b, f, i + 1)

\* C16: the summary of a non-empty BattleList is the sum of the counts of
\* the last battle followed by each of its actors once, as 'actor (count)',
\* in non-increasing order of count.
C16_SummaryText ==
    (pc = "shown" /\ battles # <<>>) =>
        /\ \A i, j \in 1..Len(LastBattle) :
              i # j => LastBattle[i].pirate # LastBattle[j].pirate
        /\ \E f \in Permutations(1..Len(LastBattle)) :
              /\ \A i \in 1..(Len(LastBattle) - 1) :
                    LastBattle[f[i]].count >= LastBattle[f[i + 1]].count
              /\ summary = "Total greedy bashes: "
                              \o ToString(SumCounts(LastBattle))
                              \o PartsText(LastBattle, f, 1)

\* A summary is shown for a last battle whose first-seen actor has fewer
\* hits than a later one.
C16_Witness ==
    /\ pc = "shown" /\ battles # <<>>
    /\ Len(LastBattle) >= 2
    /\ LastBattle[1].count < LastBattle[2].count
    /\ summary # ""

\* A battle that no log of the model produces.
OtherBattle == <<[pirate |-> "Blackbeard", count |-> 7],
                 [pirate |-> "Anne", count |-> 9]>>

\* BattleLists to put before a last battle.
EarlierBattles ==
    {<<>>, <<OtherBattle>>, <<LastBattle, OtherBattle>>, battles,
     SubSeq(battles, 1, Len(battles) - 1) \o <<OtherBattle>>}

EmptyScreen == [summary |-> "", payout_lines |-> <<>>,
                top_pay_line |-> <<>>, total |-> ""]

\* C17: what is shown for a BattleList is what is shown for any other
\* BattleList with the same last battle and the same rates.
C17_OnlyLastBattle ==
    (pc = "shown" /\ battles # <<>>) =>
        \A pre \in EarlierBattles :
            show_summary_in_gui(pre \o <<LastBattle>>, payout_var, top_var,
                                EmptyScreen) = Screen

\* A list of two different battles is shown, with commands.
C17_Witness ==
    /\ pc = "shown" /\ Len(battles) >= 2
    /\ battles[1] # LastBattle
    /\ payout_lines # <<>> /\ top_pay_line # <<>>

\* A step from one displayed analysis to another with the same last battle.
SameLastBattleStep ==
    /\ pc = "shown" /\ battles # <<>>
    /\ pc' = "shown" /\ battles' # <<>>
    /\ LastBattle' = LastBattle

\* C18: between two displays of the same last battle, the top-basher
\* commands stay as they are while the top-basher rate is the same, and the
\* per-bash commands and the summary stay as they are while the per-bash
\* rate is the same.
C18_RatesIndependent ==
    [][SameLastBattleStep =>
          /\ RateOf(top_var') = RateOf(top_var) =>
                top_pay_line' = top_pay_line
          /\ RateOf(payout_var') = RateOf(payout_var) =>
                payout_lines' = payout_lines /\ summary' = summary]_vars

\* After commands were on the screen, the per-bash entry was edited to 0
\* next to a top-basher rate of 500: the top-basher commands are shown and
\* the per-bash list is empty.
C18_Witness ==
    /\ event = "edit_payout" /\ pc = "shown" /\ battles # <<>>
    /\ had_cmds
    /\ payout_var = <<"0">> /\ top_var = <<"5", "0", "0">>
    /\ top_pay_line # <<>> /\ payout_lines = <<>>

\* The log has exactly one marker line and no attack line.
OneMarkerNoHit ==
    /\ Cardinality(MarkerIdx(Len(log))) = 1
    /\ \A i \in 1..Len(log) : IsMarker(log[i]) \/ ~IsHit(log[i])

\* C19: every battle of the list, during the pass and after it, has an
\* actor and only counts of at least 1; a log with one marker and no attack
\* line gives no battle.
C19_NoEmptyBattle ==
    /\ \A i \in 1..Len(battles) :
          /\ battles[i] # <<>>
          /\ \A k \in 1..Len(battles[i]) : battles[i][k].count >= 1
    /\ (pc # "scan" /\ OneMarkerNoHit) => battles = <<>>

\* The pass over a log of a marker and other lines, none an attack, has
\* returned.
C19_Witness ==
    /\ pc = "returned" /\ OneMarkerNoHit /\ Len(log) >= 2
    /\ in_battle /\ current_battle = <<>> /\ battles = <<>>

\* The counted hit lines of the fight that marker line m opens: the attack
\* lines whose last marker before them is m.
HitsAfter(m) ==
    {i \in 1..Len(log) :
        ~IsMarker(log[i]) /\ IsHit(log[i]) /\ LastMarkerIn(i) = m}

\* The markers that open a fight with a hit, and the k-th of them in the
\* order of the log.
FightMarkers == {m \in MarkerIdx(Len(log)) : HitsAfter(m) # {}}

NthFight(k) ==
    CHOOSE m \in FightMarkers :
        Cardinality({x \in FightMarkers : x <= m}) = k

\* C20: a line read never changes, moves or removes a battle already in the
\* list, and the list returned holds the fights with hits in the order in
\* which the log has them.
C20_OrderKept ==
    /\ [][/\ Len(battles') >= Len(battles)
          /\ SubSeq(battles', 1, Len(battles)) = battles]_vars
    /\ [](pc # "scan" =>
            /\ Len(battles) = Cardinality(FightMarkers)
            /\ \A k \in 1..Len(battles) :
                  LET hits == HitsAfter(NthFight(k)) IN
                  /\ SumCounts(battles[k]) = Cardinality(hits)
                  /\ \A i \in hits :
                        CountOf(battles[k], MatchOf[log[i]][1]) =
                           Cardinality({j \in hits :
                                          MatchOf[log[j]] = MatchOf[log[i]]}))

\* Two fights with different hits were returned.
C20_Witness ==
    /\ pc = "returned" /\ Len(battles) >= 2
    /\ battles[1] # battles[2]

-----------------------------------------------------------------------------
(* Properties of the event matcher *)

\* The step that consumes line l inside a battle.
BattleStepOn(l) == BattleStep /\ log[pos + 1] = l

\* No pattern matches an actor, a verb phrase, a victim and the tail when
\* no '[...]' stands before them; with the prefix, the pattern of the verb
\* phrase gives the actor.
BarePhrasesUnmatched ==
    \A k \in 1..NumPatterns :
        /\ \A j \in 1..NumPatterns :
              re_search(BASH_PATTERNS[j],
                        <<"Redbeard", BashVerb(k), "Bluebeard", BashTail(k)>>)
                 = <<>>
        /\ re_search(BASH_PATTERNS[k], Hit(k, "12:00", "Redbeard", "Bluebeard"))
              = << <<"Redbeard">> >>

\* C21 as stated: an attack line without the bracketed prefix counts a hit
\* for its actor, as the line with the prefix does.
C21_PrefixOptional ==
    [][BattleStepOn(NoPrefixLine) =>
          CountOf(current_battle', "Redbeard")
             = CountOf(current_battle, "Redbeard") + 1]_vars

\* C21: the bracketed prefix is required: an attack line without it is
\* matched by no pattern and counts nothing, while the same line with the
\* prefix counts one hit for its actor.
C21_PrefixRequired ==
    /\ [][/\ BattleStepOn(NoPrefixLine) =>
                current_battle' = current_battle /\ battles' = battles
          /\ BattleStepOn(RedLine) =>
                CountOf(current_battle', "Redbeard")
                   = CountOf(current_battle, "Redbeard") + 1]_vars
    /\ []BarePhrasesUnmatched

\* The attack line without prefix was read as the first line of a battle.
C21_Witness ==
    /\ pos = 2 /\ log = <<MarkerLine, NoPrefixLine>>
    /\ in_battle /\ current_battle = <<>> /\ battles = <<>>

\* The actor names of the lines, as tokens; the last two are what the lazy
\* prefix leaves of the line with two brackets, and what pattern 1 takes
\* from the line that two patterns match.
ActorTokens ==
    { <<>>, <<"Redbeard">>, <<"Shorty">>, <<"A">>, <<"B">>, <<"C">>,
      <<"b", "]", " ", "Red", " ", "Beard">>,
      <<"Shorty", BashVerb(4), "Redbeard">> }

\* No blank at either end.
Trimmed(t) == t = <<>> \/ (~IsSpace(t[1]) /\ ~IsSpace(t[Len(t)]))

\* The keys of the battles returned so far and of the open battle.
KeysInUse ==
    UNION {{battles[i][k].pirate : k \in 1..Len(battles[i])} :
              i \in 1..Len(battles)}
       \cup {current_battle[k].pirate : k \in 1..Len(current_battle)}

\* C22 as stated: every key is trimmed and is not the empty string.
C22_KeysNonEmpty ==
    \A key \in KeysInUse :
        /\ key # ""
        /\ \E t \in ActorTokens : Trimmed(t) /\ key = Join(t)

\* C22: every key is trimmed, and it is the empty string for an attack
\* line whose actor part is blank.
C22_KeysTrimmed ==
    /\ [](\A key \in KeysInUse :
             \E t \in ActorTokens : Trimmed(t) /\ key = Join(t))
    /\ [][BattleStepOn(BlankActorLine) =>
             CountOf(current_battle', "") = CountOf(current_battle, "") + 1]_vars

\* A battle with the empty string as its only key was returned.
C22_Witness ==
    /\ pc = "returned" /\ log = <<MarkerLine, BlankActorLine>>
    /\ battles = << <<[pirate |-> "", count |-> 1]>> >>

-----------------------------------------------------------------------------
(* Properties of the payout calculator *)

\* The hit lines of the last fight with hits of the log, and the line on
\* which pirate p was first seen in it.
LastFightHits == HitsAfter(NthFight(Cardinality(FightMarkers)))

FirstSeen(p) ==
    CHOOSE i \in LastFightHits :
        /\ MatchOf[log[i]][1] = p
        /\ \A j \in LastFightHits : MatchOf[log[j]][1] = p => i <= j

\* f lists the entries of battle b by count, largest first, and entries of
\* the same count by the line of their first hit.
ByCountThenFirstSeen(b, f) ==
    \A i, j \in 1..Len(b) :
        i < j =>
            \/ b[f[i]].count > b[f[j]].count
            \/ /\ b[f[i]].count = b[f[j]].count
               /\ FirstSeen(b[f[i]].pirate) < FirstSeen(b[f[j]].pirate)

\* C23: the summary, the per-hit commands and the top-basher commands list
\* the actors by count, largest first, and actors of the same count in the
\* order in which their first hits were read.
C23_TieOrder ==
    (pc = "shown" /\ battles # <<>>) =>
        LET b == LastBattle
            pv == RateOf(payout_var)
            tv == RateOf(top_var)
        IN  \E f \in Permutations(1..Len(b)) :
              /\ ByCountThenFirstSeen(b, f)
              /\ summary = "Total greedy bashes: " \o ToString(SumCounts(b))
                              \o PartsText(b, f, 1)
              /\ pv > 0 =>
                    payout_lines =
                       [i \in 1..Len(b) |->
                           PayCmd(b[f[i]].pirate, pv * b[f[i]].count)]
              /\ tv > 0 =>
                    /\ Len(top_pay_line) <= Len(b)
                    /\ \A i \in 1..Len(top_pay_line) :
                          top_pay_line[i] = PayCmd(b[f[i]].pirate, tv)

\* Two actors tie, the one seen first is not the first in the alphabet, and
\* both lists are shown.
C23_Witness ==
    /\ pc = "shown" /\ battles # <<>> /\ Len(LastBattle) = 2
    /\ LastBattle[1].pirate = "Shorty" /\ LastBattle[2].pirate = "Redbeard"
    /\ LastBattle[1].count = LastBattle[2].count
    /\ Len(payout_lines) = 2 /\ Len(top_pay_line) = 2

-----------------------------------------------------------------------------
(* Properties of repeated analyses *)

RECURSIVE TotalHits(_)
TotalHits(bs) ==
    IF bs = <<>> THEN 0 ELSE SumCounts(Head(bs)) + TotalHits(Tail(bs))

\* The non-marker attack lines among the first upto lines that come after
\* the first marker.
CountedLines(upto) ==
    {i \in 1..upto :
        /\ FirstMarker > 0 /\ i > FirstMarker
        /\ ~IsMarker(log[i]) /\ IsHit(log[i])}

\* C25: the counts of the returned battles add up to the number of
\* non-marker attack lines after the first marker; during the pass the
\* battles and the open battle together hold the hits read so far.
C25_HitsConserved ==
    /\ pc # "scan" => TotalHits(battles) = Cardinality(CountedLines(Len(log)))
    /\ pc = "scan" =>
          TotalHits(battles) + SumCounts(current_battle)
             = Cardinality(CountedLines(pos))

\* A log with an attack line before its first marker gave two battles.
C25_Witness ==
    /\ pc = "returned" /\ Len(battles) = 2
    /\ FirstMarker > 1 /\ IsHit(log[1])
    /\ TotalHits(battles) = 2

-----------------------------------------------------------------------------
(* Properties of the boundary marker *)

\* The step that consumes a line that has the marker text and that an
\* attack pattern matches as well.
MarkerAttackStep ==
    /\ pc = "scan" /\ pos' = pos + 1
    /\ IsMarker(log[pos + 1]) /\ IsHit(log[pos + 1])

\* C26: a line with the marker text that is also an attack line acts as a
\* boundary only: the open battle is closed as at any marker, a new empty
\* battle is open afterwards, and no count goes to the line's actor.
C26_MarkerFirst ==
    /\ [][MarkerAttackStep =>
            /\ in_battle' /\ current_battle' = <<>>
            /\ battles' = IF in_battle /\ current_battle # <<>>
                          THEN Append(battles, current_battle)
                          ELSE battles]_vars
    /\ [](START_PATTERN \notin KeysInUse)

\* The attack line of the actor called 'Game over' closed the first fight
\* and opened the second.
C26_Witness ==
    /\ pc = "returned" /\ log = MarkerNameLog
    /\ battles = << <<[pirate |-> "Redbeard", count |-> 1]>>,
                    <<[pirate |-> "Shorty", count |-> 1]>> >>

\* No attack line is counted after the last marker, and an earlier fight
\* has a hit.
TrailingEmptySession ==
    /\ FightMarkers # {}
    /\ HitsAfter(LastMarkerIn(Len(log))) = {}

\* The lines of the last fight with hits: from its marker up to the next
\* marker.
LastFightLines ==
    LET m == NthFight(Cardinality(FightMarkers))
        later == {i \in MarkerIdx(Len(log)) : i > m}
        end == IF later = {} THEN Len(log)
               ELSE (CHOOSE i \in later : \A j \in later : i <= j) - 1
    IN  SubSeq(log, m, end)

\* C27: when the session opened last has no hit and an earlier one has, the
\* last battle, the summary, the commands and the total are those of the
\* latest fight that has a hit.
C27_TrailingEmpty ==
    (pc = "shown" /\ TrailingEmptySession) =>
        /\ battles # <<>>
        /\ SumCounts(LastBattle) = Cardinality(LastFightHits)
        /\ \A i \in LastFightHits :
              CountOf(LastBattle, MatchOf[log[i]][1]) =
                 Cardinality({j \in LastFightHits :
                                MatchOf[log[j]] = MatchOf[log[i]]})
        /\ Screen = show_summary_in_gui(
                       count_greedy_bashes_per_battle(LastFightLines),
                       payout_var, top_var, EmptyScreen)

\* A fight with hits, then two markers and a line that is no attack; the
\* fight is what is shown.
C27_Witness ==
    /\ pc = "shown" /\ TrailingEmptySession
    /\ Len(log) = 5 /\ IsMarker(log[3]) /\ IsMarker(log[4])
    /\ ~IsMarker(log[5])
    /\ Len(battles) = 1 /\ payout_lines # <<>>

\* The amounts pv * count of the entries f[i], f[i+1], ... of battle b,
\* added up.
RECURSIVE AmountSum(_, _, _, _)
AmountSum(b, f, pv, i) ==
    IF i > Len(b) THEN 0
    ELSE pv * b[f[i]].count + AmountSum(b, f, pv, i + 1)

PositiveAmounts ==
    {a \in {RateOf(t) * c : t \in RateFields, c \in 1..(MaxLogLen + 2)} :
        a > 0}

\* C29: a negative rate gives no command of its category, a negative
\* pay-per-hit gives a total of 0, and no command or total is ever
\* negative.
C29_NegativeIsZero ==
    (pc = "shown" /\ battles # <<>>) =>
        LET b == LastBattle IN
        /\ RateOf(top_var) < 0 => top_pay_line = <<>>
        /\ RateOf(payout_var) < 0 =>
              /\ payout_lines = <<>>
              /\ total_payout_label = "Total Battle Payout: 0 PoE"
        /\ \A i \in 1..Len(payout_lines) :
              \E k \in 1..Len(b), a \in PositiveAmounts :
                  payout_lines[i] = PayCmd(b[k].pirate, a)
        /\ \A i \in 1..Len(top_pay_line) :
              \E k \in 1..Len(b), a \in PositiveAmounts :
                  top_pay_line[i] = PayCmd(b[k].pirate, a)
        /\ \E n \in PositiveAmounts \cup {0} :
              total_payout_label = TotalLabel(n)

\* Both entries hold -5 and a battle with hits is shown.
C29_Witness ==
    /\ pc = "shown" /\ battles # <<>> /\ SumCounts(LastBattle) >= 2
    /\ payout_var = <<"-", "5">> /\ top_var = <<"-", "5">>
    /\ RateOf(payout_var) = 0 - 5
    /\ payout_lines = <<>> /\ top_pay_line = <<>>

-----------------------------------------------------------------------------
(* Properties of the window, continued *)

\* C30: whenever the text box shows 'No file selected.' or a read error,
\* both command lists are empty and the total label shows 0; after an
\* analysis all four parts are those of that analysis.
C30_DisplayConsistent ==
    /\ pc \in {"no_file", "read_error"} =>
          /\ payout_lines = <<>>
          /\ top_pay_line = <<>>
          /\ total_payout_label = TotalLabel(0)
    /\ pc = "shown" =>
          Screen = show_summary_in_gui(battles, payout_var, top_var,
                                       EmptyScreen)

====
